---- MODULE Spec2Model ----
(***************************************************************************)
(* Model of src/app.py: the INT / DSL / HY-INT / R95 dashboard script.     *)
(* The script is a straight-line pipeline: read the CSV, _prepare_df,      *)
(* sidebar parameters, year filter, season / half-year markers, the R95    *)
(* threshold of the baseline period, and the annual, seasonal and          *)
(* half-year tables with their normalized columns.                         *)
(*                                                                         *)
(* Floats are modelled as exact fractions <<n, d>> with d > 0, reduced;     *)
(* NaN is the pair <<0, 0>>.  Comparisons with NaN are FALSE, as in IEEE.   *)
(***************************************************************************)
EXTENDS Integers, Sequences, FiniteSets, TLC

VARIABLES pc, cols, raw, df, anos, limiar_umido, anos_sel, base_ini, base_fim,
          r95_threshold, annual, seasonal, half, half_jfmamj,
          is_dry_bool, runs_out

vars == <<pc, cols, raw, df, anos, limiar_umido, anos_sel, base_ini, base_fim,
          r95_threshold, annual, seasonal, half, half_jfmamj,
          is_dry_bool, runs_out>>

(***************************************************************************)
(* Bounds of the model.                                                    *)
(***************************************************************************)
\* number of dated rows of the CSV
NumRows == 4
\* longest boolean sequence handed to dry_spell_lengths on its own
MaxLen == 6
\* number of calendar years the season / half-year markers are tried on
NumYears == 5

(***************************************************************************)
(* Floats as fractions.                                                    *)
(***************************************************************************)
NaN == <<0, 0>>

IsNaN(x) == x[2] = 0

Abs(n) == IF n < 0 THEN -n ELSE n

RECURSIVE Gcd(_, _)
Gcd(a, b) == IF b = 0 THEN a ELSE Gcd(b, a % b)

Frac(n, d) ==
    IF d = 0 THEN NaN
    ELSE LET g == Gcd(Abs(n), Abs(d))
             s == IF d < 0 THEN -1 ELSE 1
         IN  <<(s * n) \div g, (s * d) \div g>>

Num(n) == <<n, 1>>

FAdd(x, y) == IF IsNaN(x) \/ IsNaN(y) THEN NaN
              ELSE Frac(x[1] * y[2] + y[1] * x[2], x[2] * y[2])

FSub(x, y) == IF IsNaN(x) \/ IsNaN(y) THEN NaN
              ELSE Frac(x[1] * y[2] - y[1] * x[2], x[2] * y[2])

FMul(x, y) == IF IsNaN(x) \/ IsNaN(y) THEN NaN
              ELSE Frac(x[1] * y[1], x[2] * y[2])

\* float division; only ever applied with a non-zero divisor
FDiv(x, y) == IF IsNaN(x) \/ IsNaN(y) THEN NaN
              ELSE Frac(x[1] * y[2], x[2] * y[1])

\* x >= y on floats: FALSE as soon as one side is NaN
FGeq(x, y) == /\ ~IsNaN(x)
              /\ ~IsNaN(y)
              /\ x[1] * y[2] >= y[1] * x[2]

IsZero(x) == ~IsNaN(x) /\ x[1] = 0

(***************************************************************************)
(* Sequence helpers.                                                       *)
(***************************************************************************)
RECURSIVE SelectRows(_, _)
SelectRows(s, keep) ==
    IF s = <<>> THEN <<>>
    ELSE IF keep[1] THEN <<Head(s)>> \o SelectRows(Tail(s), Tail(keep))
         ELSE SelectRows(Tail(s), Tail(keep))

RECURSIVE SumInts(_)
SumInts(s) == IF s = <<>> THEN 0 ELSE Head(s) + SumInts(Tail(s))

RECURSIVE MaxInts(_)
MaxInts(s) == IF Len(s) = 1 THEN s[1]
              ELSE LET m == MaxInts(Tail(s)) IN IF s[1] >= m THEN s[1] ELSE m

CountTrue(b) == Cardinality({i \in DOMAIN b : b[i]})

Reverse(s) == [i \in 1..Len(s) |-> s[Len(s) + 1 - i]]

\* pandas Series.sum(skipna=True): NaN entries are skipped, the empty sum is 0
RECURSIVE SumSkipNa(_)
SumSkipNa(s) ==
    IF s = <<>> THEN Num(0)
    ELSE IF IsNaN(Head(s)) THEN SumSkipNa(Tail(s))
         ELSE FAdd(Head(s), SumSkipNa(Tail(s)))

DropNa(s) == SelectRows(s, [i \in 1..Len(s) |-> ~IsNaN(s[i])])

\* pandas Series.mean(skipna=True): NaN when no entry is defined
MeanSkipNa(s) ==
    LET d == DropNa(s)
    IN  IF d = <<>> THEN NaN ELSE FDiv(SumSkipNa(d), Num(Len(d)))

(***************************************************************************)
(* The CSV as read by pd.read_csv: two columns, a date cell and a          *)
(* precipitation cell per row.  A date cell is the triple written in the   *)
(* file; a precipitation cell is the text of the cell.                     *)
(***************************************************************************)
NaT == <<0, 0, 0>>

\* column names the file may carry: <<date column, precipitation column>>
ColumnChoices == { <<"date", "precip">>, <<"Date", "PR">>,
                   <<"data", "precip">>, <<"date", "chuva">> }

\* str.lower() on the column names above
Lower(c) == CASE c = "Date" -> "date"
              [] c = "PR" -> "pr"
              [] OTHER -> c

PrecipCells == {"0", "1", "5", "--"}

\* pd.to_numeric(errors="coerce"): a number, or NaN for anything else
ToNumeric(cell) == CASE cell = "0" -> Num(0)
                     [] cell = "1" -> Num(1)
                     [] cell = "5" -> Num(5)
                     [] OTHER -> NaN

IsLeap(y) == (y % 4 = 0 /\ y % 100 # 0) \/ y % 400 = 0

DaysInMonth(y, m) == IF m = 2 THEN (IF IsLeap(y) THEN 29 ELSE 28)
                     ELSE IF m \in {4, 6, 9, 11} THEN 30 ELSE 31

\* pd.to_datetime(errors="coerce"): the date, or NaT when it is no calendar date
ToDatetime(cell) ==
    IF /\ cell[2] \in 1..12
       /\ cell[3] >= 1
       /\ cell[3] <= DaysInMonth(cell[1], cell[2])
    THEN cell ELSE NaT

DateLeq(a, b) == \/ a[1] < b[1]
                 \/ a[1] = b[1] /\ a[2] < b[2]
                 \/ a[1] = b[1] /\ a[2] = b[2] /\ a[3] <= b[3]

RECURSIVE InsertByDate(_, _)
InsertByDate(r, s) ==
    IF s = <<>> THEN <<r>>
    ELSE IF DateLeq(r.date, Head(s).date) THEN <<r>> \o s
         ELSE <<Head(s)>> \o InsertByDate(r, Tail(s))

\* DataFrame.sort_values("date")
RECURSIVE SortByDate(_)
SortByDate(s) == IF s = <<>> THEN <<>>
                 ELSE InsertByDate(Head(s), SortByDate(Tail(s)))

\* _prepare_df, lines 92-97: coerce both columns, drop the rows without a
\* date (and only those), sort by date, add year and month
PrepareRows(rows) ==
    LET conv  == [i \in DOMAIN rows |->
                    [date |-> ToDatetime(rows[i].date),
                     precip |-> ToNumeric(rows[i].precip)]]
        dated == SelectRows(conv, [i \in DOMAIN conv |-> conv[i].date # NaT])
        srt   == SortByDate(dated)
    IN  [i \in DOMAIN srt |->
            [date |-> srt[i].date, precip |-> srt[i].precip,
             year |-> srt[i].date[1], month |-> srt[i].date[2]]]

\* _prepare_df, lines 72-90: the column lookup; FALSE stands for the ValueError
HasColumns(c) == /\ Lower(c[1]) = "date"
                 /\ Lower(c[2]) \in {"precip", "pr"}

(***************************************************************************)
(* Season and half-year markers.                                           *)
(***************************************************************************)
season_label(month) ==
    IF month \in {12, 1, 2} THEN "DJF"
    ELSE IF month \in {3, 4, 5} THEN "MAM"
    ELSE IF month \in {6, 7, 8} THEN "JJA"
    ELSE "SON"

season_yearNoShift(row) == row.year

season_year(row) == IF row.month = 12 THEN row.year + 1 ELSE row.year

is_JFMAMJ(month) == month >= 1 /\ month <= 6

half_label(month) == IF is_JFMAMJ(month) THEN "JFMAMJ" ELSE "JASOND"

AddMarkers(d) ==
    [i \in DOMAIN d |->
        [date |-> d[i].date, precip |-> d[i].precip,
         year |-> d[i].year, month |-> d[i].month,
         season |-> season_label(d[i].month),
         season_year |-> season_year(d[i]),
         is_JFMAMJ |-> is_JFMAMJ(d[i].month),
         half_label |-> half_label(d[i].month),
         half_year |-> d[i].year]]

\* the year filter: an empty selection keeps every row
FilterYearsNone(d, sel) == d

FilterYears(d, sel) ==
    IF sel # {} THEN SelectRows(d, [i \in DOMAIN d |-> d[i].year \in sel])
    ELSE d

(***************************************************************************)
(* dry_spell_lengths: the lengths of the runs of consecutive True.         *)
(***************************************************************************)
\* the for loop of lines 157-163 from position i on, then lines 164-166
RECURSIVE DrySpellScan(_, _, _, _)
DrySpellScan(s, i, run, runs) ==
    IF i > Len(s)
    THEN (IF run > 0 THEN Append(runs, run) ELSE runs)
    ELSE IF s[i]
         THEN DrySpellScan(s, i + 1, run + 1, runs)
         ELSE IF run > 0
              THEN DrySpellScan(s, i + 1, 0, Append(runs, run))
              ELSE DrySpellScan(s, i + 1, run, runs)

\* the same loop without the final "if run > 0: runs.append(run)"
RECURSIVE DrySpellScanNoTail(_, _, _, _)
DrySpellScanNoTail(s, i, run, runs) ==
    IF i > Len(s)
    THEN runs
    ELSE IF s[i]
         THEN DrySpellScanNoTail(s, i + 1, run + 1, runs)
         ELSE IF run > 0
              THEN DrySpellScanNoTail(s, i + 1, 0, Append(runs, run))
              ELSE DrySpellScanNoTail(s, i + 1, run, runs)

dry_spell_lengthsNoTail(is_dry) == DrySpellScanNoTail(is_dry, 1, 0, <<>>)

\* the same loop without "run = 0" after a run is appended
RECURSIVE DrySpellScanNoReset(_, _, _, _)
DrySpellScanNoReset(s, i, run, runs) ==
    IF i > Len(s)
    THEN (IF run > 0 THEN Append(runs, run) ELSE runs)
    ELSE IF s[i]
         THEN DrySpellScanNoReset(s, i + 1, run + 1, runs)
         ELSE IF run > 0
              THEN DrySpellScanNoReset(s, i + 1, run, Append(runs, run))
              ELSE DrySpellScanNoReset(s, i + 1, run, runs)

dry_spell_lengthsNoReset(is_dry) == DrySpellScanNoReset(is_dry, 1, 0, <<>>)

dry_spell_lengths(is_dry) == DrySpellScan(is_dry, 1, 0, <<>>)

(***************************************************************************)
(* compute_r95_threshold: np.percentile(wet, 95), linear interpolation.    *)
(***************************************************************************)
RECURSIVE InsertNum(_, _)
InsertNum(x, s) ==
    IF s = <<>> THEN <<x>>
    ELSE IF FGeq(Head(s), x) THEN <<x>> \o s
         ELSE <<Head(s)>> \o InsertNum(x, Tail(s))

RECURSIVE SortNums(_)
SortNums(s) == IF s = <<>> THEN <<>> ELSE InsertNum(Head(s), SortNums(Tail(s)))

\* virtual index 0.95 * (n - 1) between the order statistics
Percentile95(vals) ==
    LET n   == Len(vals)
        s   == SortNums(vals)
        lo  == (95 * (n - 1)) \div 100
        rem == (95 * (n - 1)) % 100
        hi  == IF lo + 2 <= n THEN lo + 2 ELSE n
    IN  FAdd(s[lo + 1], FMul(Frac(rem, 100), FSub(s[hi], s[lo + 1])))

PrecipOf(g) == [i \in DOMAIN g |-> g[i].precip]

\* a wet mask written with ">" instead of ">="
IsWetMaskGt(p, wet_thresh) ==
    [i \in DOMAIN p |-> FGeq(p[i], wet_thresh) /\ ~FGeq(wet_thresh, p[i])]

IsWetMask(p, wet_thresh) == [i \in DOMAIN p |-> FGeq(p[i], wet_thresh)]

compute_r95_threshold(df_base, wet_thresh) ==
    LET p   == PrecipOf(df_base)
        wet == DropNa(SelectRows(p, IsWetMask(p, wet_thresh)))
    IN  IF wet = <<>> THEN NaN ELSE Percentile95(wet)

\* lines 226: the rows of the baseline years
BaseRows(d, lo, hi) ==
    SelectRows(d, [i \in DOMAIN d |-> d[i].year >= lo /\ d[i].year <= hi])

(***************************************************************************)
(* compute_block_metrics.                                                  *)
(***************************************************************************)
\* a dry mask written as "precip < threshold": NaN is then neither wet nor dry
IsDryMaskLt(p, wet_thresh) ==
    [i \in DOMAIN p |-> ~IsNaN(p[i]) /\ ~FGeq(p[i], wet_thresh)]

\* is_dry = ~is_wet
IsDryMask(p, wet_thresh) ==
    LET is_wet == IsWetMask(p, wet_thresh)
    IN  [i \in DOMAIN p |-> ~is_wet[i]]

\* INT reported as 0 instead of NaN for a block without wet days
IntensityZero(prcptot, rainy) ==
    IF rainy > 0 THEN FDiv(prcptot, Num(rainy)) ELSE Num(0)

\* line 182
Intensity(prcptot, rainy) ==
    IF rainy > 0 THEN FDiv(prcptot, Num(rainy)) ELSE NaN

compute_block_metrics(g, wet_thresh, r95_thresh) ==
    LET p        == PrecipOf(g)
        is_wet   == IsWetMask(p, wet_thresh)
        is_dry   == IsDryMask(p, wet_thresh)
        prcptot  == SumSkipNa(p)
        rainy    == CountTrue(is_wet)
        lengths  == dry_spell_lengths(is_dry)
        mask_r95 == [i \in DOMAIN p |-> FGeq(p[i], r95_thresh)]
    IN  [PRCPTOT_mm       |-> prcptot,
         Dias_chuvosos    |-> rainy,
         INT_mm_dia       |-> Intensity(prcptot, rainy),
         DSL_dias         |-> IF lengths # <<>>
                              THEN Frac(SumInts(lengths), Len(lengths))
                              ELSE Num(0),
         CDD_dias         |-> IF lengths # <<>> THEN MaxInts(lengths) ELSE 0,
         Dias_secos       |-> CountTrue(is_dry),
         N_periodos_secos |-> Len(lengths),
         R95pTOT_mm       |-> IF ~IsNaN(r95_thresh)
                              THEN SumSkipNa(SelectRows(p, mask_r95))
                              ELSE NaN,
         R95pDAYS         |-> IF ~IsNaN(r95_thresh) THEN CountTrue(mask_r95) ELSE 0]

(***************************************************************************)
(* groupby(...).apply(compute_block_metrics): a table is a function from   *)
(* the block keys to the block's row of metrics.                           *)
(***************************************************************************)
YearKey(r) == r.year

SeasonKey(r) == <<r.season_year, r.season>>

HalfKey(r) == <<r.half_year, r.half_label>>

\* the groupby columns: "year", "season" or "half"
BlockKey(by, r) == CASE by = "year" -> YearKey(r)
                     [] by = "season" -> SeasonKey(r)
                     [] by = "half" -> HalfKey(r)

GroupRows(d, by, k) == SelectRows(d, [i \in DOMAIN d |-> BlockKey(by, d[i]) = k])

GroupKeys(d, by) == {BlockKey(by, d[i]) : i \in DOMAIN d}

BlockTable(d, by, wet_thresh, r95_thresh) ==
    [k \in GroupKeys(d, by) |->
        compute_block_metrics(GroupRows(d, by, k), wet_thresh, r95_thresh)]

(***************************************************************************)
(* add_normalized_cols.                                                    *)
(***************************************************************************)
RECURSIVE SetToSeq(_)
SetToSeq(S) ==
    IF S = {} THEN <<>>
    ELSE LET k == CHOOSE x \in S : TRUE IN <<k>> \o SetToSeq(S \ {k})

\* a mean that divides by the number of rows, defined or not
MeanAllRows(s) ==
    IF s = <<>> THEN NaN ELSE FDiv(SumSkipNa(s), Num(Len(s)))

\* DataFrame column mean(skipna=True) over the blocks of the table
ColumnMean(col) == MeanSkipNa(col)

\* "x / mean if mean and not np.isnan(mean) else np.nan"
NormalizeBy(x, mean) ==
    IF ~IsZero(mean) /\ ~IsNaN(mean) THEN FDiv(x, mean) ELSE NaN

add_normalized_cols(t) ==
    LET keys     == SetToSeq(DOMAIN t)
        mean_int == ColumnMean([i \in DOMAIN keys |-> t[keys[i]].INT_mm_dia])
        mean_dsl == ColumnMean([i \in DOMAIN keys |-> t[keys[i]].DSL_dias])
    IN  [k \in DOMAIN t |->
            LET int_norm == NormalizeBy(t[k].INT_mm_dia, mean_int)
                dsl_norm == NormalizeBy(t[k].DSL_dias, mean_dsl)
            IN  [PRCPTOT_mm       |-> t[k].PRCPTOT_mm,
                 Dias_chuvosos    |-> t[k].Dias_chuvosos,
                 INT_mm_dia       |-> t[k].INT_mm_dia,
                 DSL_dias         |-> t[k].DSL_dias,
                 CDD_dias         |-> t[k].CDD_dias,
                 Dias_secos       |-> t[k].Dias_secos,
                 N_periodos_secos |-> t[k].N_periodos_secos,
                 R95pTOT_mm       |-> t[k].R95pTOT_mm,
                 R95pDAYS         |-> t[k].R95pDAYS,
                 INT_norm         |-> int_norm,
                 DSL_norm         |-> dsl_norm,
                 HY_INT           |-> FMul(int_norm, dsl_norm)]]

\* half.xs("JFMAMJ", level="half_label", drop_level=False)
XsJFMAMJ(t) == [k \in {x \in DOMAIN t : x[2] = "JFMAMJ"} |-> t[k]]

(***************************************************************************)
(* Inputs.                                                                 *)
(***************************************************************************)
\* a month is counted as year * 12 + (month - 1)
CellDate(mi) == <<mi \div 12, (mi % 12) + 1, 15>>

\* the files tried, <<first month, step in months, shuffled>>: one row per
\* month from November 2019 in date order (two years, DJF across the new
\* year), or one row every second month from May 2020 (three seasons, both
\* half-years) in reverse order with one undated row inside
Calendars == { <<2019 * 12 + 10, 1, FALSE>>, <<2020 * 12 + 4, 2, TRUE>> }

\* a cell that is no calendar date
BadDateCell == <<2020, 2, 30>>

RawFrame(cal, cells) ==
    LET rows == [i \in 1..NumRows |->
                    [date |-> CellDate(cal[1] + (i - 1) * cal[2]),
                     precip |-> cells[i]]]
    IN  IF cal[3]
        THEN <<Head(Reverse(rows))>>
               \o <<[date |-> BadDateCell, precip |-> "5"]>>
               \o Tail(Reverse(rows))
        ELSE rows

RawFrames == {RawFrame(cal, cells) :
                 cal \in Calendars,
                 cells \in [1..NumRows -> PrecipCells]}

\* values of the "Limiar de dia umido" number input (min_value = 0.0)
WetThresholds == {Num(0), Num(2)}

NoTable == [k \in {} |-> 0]

(***************************************************************************)
(* The script, top to bottom.                                              *)
(***************************************************************************)
Init ==
    /\ pc = "start"
    /\ cols \in ColumnChoices
    /\ raw \in RawFrames
    /\ df = <<>>
    /\ anos = {}
    /\ limiar_umido = NaN
    /\ anos_sel = {}
    /\ base_ini = 0
    /\ base_fim = 0
    /\ r95_threshold = NaN
    /\ annual = NoTable
    /\ seasonal = NoTable
    /\ half = NoTable
    /\ half_jfmamj = NoTable
    /\ is_dry_bool = <<>>
    /\ runs_out = <<>>

\* lines 101-106 with _prepare_df
Prepare ==
    /\ pc = "start"
    /\ IF HasColumns(cols)
       THEN /\ cols' = <<"date", "precip">>
            /\ df' = PrepareRows(raw)
            /\ pc' = "sidebar"
       ELSE /\ pc' = "error"
            /\ UNCHANGED <<cols, df>>
    /\ UNCHANGED <<raw, anos, limiar_umido, anos_sel, base_ini, base_fim,
                   r95_threshold, annual, seasonal, half, half_jfmamj,
                   is_dry_bool, runs_out>>

\* lines 111-127: the sidebar widgets
Sidebar ==
    /\ pc = "sidebar"
    /\ LET ys == {df[i].year : i \in DOMAIN df}
       IN  /\ ys # {}
           /\ anos' = ys
           /\ \E t \in WetThresholds : limiar_umido' = t
           /\ \E sel \in SUBSET ys : anos_sel' = sel
           /\ \E lo \in ys, hi \in ys :
                 /\ lo <= hi
                 /\ base_ini' = lo
                 /\ base_fim' = hi
    /\ pc' = "filter"
    /\ UNCHANGED <<cols, raw, df, r95_threshold, annual, seasonal, half,
                   half_jfmamj, is_dry_bool, runs_out>>

\* lines 129-130
Filter ==
    /\ pc = "filter"
    /\ df' = FilterYears(df, anos_sel)
    /\ pc' = "markers"
    /\ UNCHANGED <<cols, raw, anos, limiar_umido, anos_sel, base_ini, base_fim,
                   r95_threshold, annual, seasonal, half, half_jfmamj,
                   is_dry_bool, runs_out>>

\* lines 145-149
Markers ==
    /\ pc = "markers"
    /\ df' = AddMarkers(df)
    /\ pc' = "r95"
    /\ UNCHANGED <<cols, raw, anos, limiar_umido, anos_sel, base_ini, base_fim,
                   r95_threshold, annual, seasonal, half, half_jfmamj,
                   is_dry_bool, runs_out>>

\* lines 226-227
R95Threshold ==
    /\ pc = "r95"
    /\ r95_threshold' =
          compute_r95_threshold(BaseRows(df, base_ini, base_fim), limiar_umido)
    /\ pc' = "annual"
    /\ UNCHANGED <<cols, raw, df, anos, limiar_umido, anos_sel, base_ini,
                   base_fim, annual, seasonal, half, half_jfmamj,
                   is_dry_bool, runs_out>>

\* lines 232-237
Annual ==
    /\ pc = "annual"
    /\ annual' = add_normalized_cols(
                    BlockTable(df, "year", limiar_umido, r95_threshold))
    /\ pc' = "seasonal"
    /\ UNCHANGED <<cols, raw, df, anos, limiar_umido, anos_sel, base_ini,
                   base_fim, r95_threshold, seasonal, half, half_jfmamj,
                   is_dry_bool, runs_out>>

\* lines 239-244
Seasonal ==
    /\ pc = "seasonal"
    /\ seasonal' = add_normalized_cols(
                      BlockTable(df, "season", limiar_umido, r95_threshold))
    /\ pc' = "half"
    /\ UNCHANGED <<cols, raw, df, anos, limiar_umido, anos_sel, base_ini,
                   base_fim, r95_threshold, annual, half, half_jfmamj,
                   is_dry_bool, runs_out>>

\* lines 246-252; xs raises KeyError when no block is labelled JFMAMJ
Half ==
    /\ pc = "half"
    /\ half' = BlockTable(df, "half", limiar_umido, r95_threshold)
    /\ IF \E k \in DOMAIN half' : k[2] = "JFMAMJ"
       THEN /\ half_jfmamj' = add_normalized_cols(XsJFMAMJ(half'))
            /\ pc' = "done"
       ELSE /\ pc' = "error"
            /\ UNCHANGED half_jfmamj
    /\ UNCHANGED <<cols, raw, df, anos, limiar_umido, anos_sel, base_ini,
                   base_fim, r95_threshold, annual, seasonal,
                   is_dry_bool, runs_out>>

Next == \/ Prepare
        \/ Sidebar
        \/ Filter
        \/ Markers
        \/ R95Threshold
        \/ Annual
        \/ Seasonal
        \/ Half

Spec == Init /\ [][Next]_vars

(***************************************************************************)
(* dry_spell_lengths on its own, over every boolean sequence up to MaxLen. *)
(***************************************************************************)
BoolSeqs == UNION {[1..n -> BOOLEAN] : n \in 0..MaxLen}

InitRuns ==
    /\ pc = "runs"
    /\ is_dry_bool \in BoolSeqs
    /\ runs_out = <<>>
    /\ cols = <<"date", "precip">>
    /\ raw = <<>>
    /\ df = <<>>
    /\ anos = {}
    /\ limiar_umido = NaN
    /\ anos_sel = {}
    /\ base_ini = 0
    /\ base_fim = 0
    /\ r95_threshold = NaN
    /\ annual = NoTable
    /\ seasonal = NoTable
    /\ half = NoTable
    /\ half_jfmamj = NoTable

RunSegmenter ==
    /\ pc = "runs"
    /\ runs_out' = dry_spell_lengths(is_dry_bool)
    /\ pc' = "runs_done"
    /\ UNCHANGED <<cols, raw, df, anos, limiar_umido, anos_sel, base_ini,
                   base_fim, r95_threshold, annual, seasonal, half,
                   half_jfmamj, is_dry_bool>>

SpecRuns == InitRuns /\ [][RunSegmenter]_vars

(***************************************************************************)
(* The markers and the tables on a prepared frame of two observations      *)
(* whose dates range over every month of NumYears years from 2018 on.      *)
(***************************************************************************)
SeasonMonths == (2018 * 12) .. (2018 * 12 + NumYears * 12 - 1)

InitSeason ==
    /\ pc = "markers"
    /\ \E m1 \in SeasonMonths, m2 \in SeasonMonths :
          /\ m1 < m2
          /\ raw = << [date |-> CellDate(m1), precip |-> "5"],
                      [date |-> CellDate(m2), precip |-> "0"] >>
    /\ cols = <<"date", "precip">>
    /\ df = PrepareRows(raw)
    /\ anos = {df[i].year : i \in DOMAIN df}
    /\ limiar_umido = Num(2)
    /\ anos_sel = {}
    /\ base_ini = df[1].year
    /\ base_fim = df[Len(df)].year
    /\ r95_threshold = NaN
    /\ annual = NoTable
    /\ seasonal = NoTable
    /\ half = NoTable
    /\ half_jfmamj = NoTable
    /\ is_dry_bool = <<>>
    /\ runs_out = <<>>

NextSeason == \/ Markers
              \/ R95Threshold
              \/ Annual
              \/ Seasonal
              \/ Half

SpecSeason == InitSeason /\ [][NextSeason]_vars

(***************************************************************************)
(* Vocabulary of the properties: what a block holds, stated on the frame   *)
(* itself rather than through the functions above.                         *)
(***************************************************************************)
\* the markers are in the frame
MarkersDone == \/ pc \in {"r95", "annual", "seasonal", "half", "done"}
               \/ pc = "error" /\ DOMAIN half # {}

\* the script has run to its end, or has stopped on the KeyError of line 251
\* with the annual, seasonal and half-year tables computed
Finished == \/ pc = "done"
            \/ pc = "error" /\ DOMAIN half # {}

YearIdx(k) == {i \in DOMAIN df : df[i].year = k}

SeasonIdx(k) == {i \in DOMAIN df :
                    df[i].season_year = k[1] /\ df[i].season = k[2]}

HalfIdx(k) == {i \in DOMAIN df :
                  df[i].half_year = k[1] /\ df[i].half_label = k[2]}

\* observation i has a value and it reaches the wet threshold
ObsWet(i) == FGeq(df[i].precip, limiar_umido)

ObsMissing(i) == IsNaN(df[i].precip)

RECURSIVE SumPrecip(_)
SumPrecip(S) ==
    IF S = {} THEN Num(0)
    ELSE LET i == CHOOSE x \in S : TRUE
         IN  IF ObsMissing(i) THEN SumPrecip(S \ {i})
             ELSE FAdd(df[i].precip, SumPrecip(S \ {i}))

RECURSIVE SumF(_, _)
SumF(f, S) ==
    IF S = {} THEN Num(0)
    ELSE LET k == CHOOSE x \in S : TRUE IN FAdd(f[k], SumF(f, S \ {k}))

\* the indices of S in date order (the frame is sorted by date)
SortedIdx(S) ==
    [n \in 1..Cardinality(S) |->
        CHOOSE i \in S : Cardinality({j \in S : j < i}) = n - 1]

\* the maximal runs of TRUE of a boolean sequence, by their first positions
RunStarts(s) == {i \in DOMAIN s : s[i] /\ (i = 1 \/ ~s[i - 1])}

RunLenAt(s, i) ==
    (CHOOSE j \in i..Len(s) :
        /\ \A x \in i..j : s[x]
        /\ (j = Len(s) \/ ~s[j + 1])) - i + 1

MaximalRuns(s) ==
    LET st == SortedIdx(RunStarts(s))
    IN  [n \in DOMAIN st |-> RunLenAt(s, st[n])]

\* the block's own sub-sequence of "not wet" flags, in date order
DrySeq(S) == LET ix == SortedIdx(S) IN [n \in DOMAIN ix |-> ~ObsWet(ix[n])]

MeanInts(L) == IF L = <<>> THEN Num(0) ELSE Frac(SumInts(L), Len(L))

MaxOrZero(L) == IF L = <<>> THEN 0
                ELSE CHOOSE v \in {L[n] : n \in DOMAIN L} :
                        \A n \in DOMAIN L : L[n] <= v

(***************************************************************************)
(* C1.                                                                     *)
(***************************************************************************)
C1_WetOnlyBlock(m, idx) ==
    LET W == {i \in idx : ObsWet(i)}
    IN  IF W # {}
        THEN m.INT_mm_dia = FDiv(SumPrecip(W), Num(Cardinality(W)))
        ELSE IsNaN(m.INT_mm_dia)

C1_TotalBlock(m, idx) ==
    LET W == {i \in idx : ObsWet(i)}
    IN  IF W # {}
        THEN m.INT_mm_dia = FDiv(SumPrecip(idx), Num(Cardinality(W)))
        ELSE IsNaN(m.INT_mm_dia)

\* C1 as stated: in every block of every table INT is the precipitation of
\* the wet days only divided by the number of wet days, and undefined when
\* the block has no wet day.
C1_IntOverWetDaysOnly ==
    Finished =>
        /\ \A k \in DOMAIN annual : C1_WetOnlyBlock(annual[k], YearIdx(k))
        /\ \A k \in DOMAIN seasonal : C1_WetOnlyBlock(seasonal[k], SeasonIdx(k))
        /\ \A k \in DOMAIN half : C1_WetOnlyBlock(half[k], HalfIdx(k))
        /\ \A k \in DOMAIN half_jfmamj : C1_WetOnlyBlock(half_jfmamj[k], HalfIdx(k))

\* C1 amended: in every block of every table INT is the block's total
\* precipitation (PRCPTOT_mm, wet and dry days alike, missing values skipped)
\* divided by the number of wet days, and undefined when there is no wet day.
C1_IntIsTotalOverWetDays ==
    Finished =>
        /\ \A k \in DOMAIN annual :
              /\ C1_TotalBlock(annual[k], YearIdx(k))
              /\ annual[k].PRCPTOT_mm = SumPrecip(YearIdx(k))
        /\ \A k \in DOMAIN seasonal :
              /\ C1_TotalBlock(seasonal[k], SeasonIdx(k))
              /\ seasonal[k].PRCPTOT_mm = SumPrecip(SeasonIdx(k))
        /\ \A k \in DOMAIN half :
              /\ C1_TotalBlock(half[k], HalfIdx(k))
              /\ half[k].PRCPTOT_mm = SumPrecip(HalfIdx(k))
        /\ \A k \in DOMAIN half_jfmamj :
              /\ C1_TotalBlock(half_jfmamj[k], HalfIdx(k))
              /\ half_jfmamj[k].PRCPTOT_mm = SumPrecip(HalfIdx(k))

\* a year block with a wet day and a dry day on which 1 mm fell
C1_Witness ==
    /\ pc = "done"
    /\ \E k \in DOMAIN annual : \E i \in YearIdx(k), j \in YearIdx(k) :
          /\ ObsWet(i)
          /\ ~ObsWet(j)
          /\ df[j].precip = Num(1)
          /\ ~IsNaN(annual[k].INT_mm_dia)

(***************************************************************************)
(* C2.                                                                     *)
(***************************************************************************)
BaselineWet == {i \in DOMAIN df :
                   /\ df[i].year >= base_ini
                   /\ df[i].year <= base_fim
                   /\ ObsWet(i)}

C2_UndefinedBlock(m) == IsNaN(m.R95pTOT_mm) /\ m.R95pDAYS # 0

\* C2 as stated: when the baseline holds no wet day the threshold is
\* undefined and, in every block of every table, R95pTOT is undefined and
\* R95pDAYS is not reported as zero.
C2_ExceedanceUndefinedNotZero ==
    (Finished /\ BaselineWet = {}) =>
        /\ IsNaN(r95_threshold)
        /\ \A k \in DOMAIN annual : C2_UndefinedBlock(annual[k])
        /\ \A k \in DOMAIN seasonal : C2_UndefinedBlock(seasonal[k])
        /\ \A k \in DOMAIN half : C2_UndefinedBlock(half[k])
        /\ \A k \in DOMAIN half_jfmamj : C2_UndefinedBlock(half_jfmamj[k])

(***************************************************************************)
(* C3.                                                                     *)
(***************************************************************************)
C3_ExcludedBlock(m, idx) ==
    LET V == {i \in idx : ~ObsMissing(i)}
        L == MaximalRuns(DrySeq(V))
    IN  /\ m.Dias_chuvosos = Cardinality({i \in V : ObsWet(i)})
        /\ m.Dias_secos = Cardinality({i \in V : ~ObsWet(i)})
        /\ m.N_periodos_secos = Len(L)
        /\ m.DSL_dias = MeanInts(L)
        /\ m.CDD_dias = MaxOrZero(L)

\* C3 as stated: the counts and the dry runs of every block are those of the
\* block with its missing-value observations left out.
C3_MissingExcluded ==
    Finished =>
        /\ \A k \in DOMAIN annual : C3_ExcludedBlock(annual[k], YearIdx(k))
        /\ \A k \in DOMAIN seasonal : C3_ExcludedBlock(seasonal[k], SeasonIdx(k))
        /\ \A k \in DOMAIN half : C3_ExcludedBlock(half[k], HalfIdx(k))
        /\ \A k \in DOMAIN half_jfmamj : C3_ExcludedBlock(half_jfmamj[k], HalfIdx(k))

(***************************************************************************)
(* C4.                                                                     *)
(***************************************************************************)
C4_PartitionBlock(m, idx) ==
    /\ m.Dias_chuvosos + m.Dias_secos = Cardinality(idx)
    /\ m.Dias_chuvosos = Cardinality({i \in idx : ObsWet(i)})

\* C4: in every block of every table the wet-day count plus the dry-day
\* count is the number of observations of the block.
C4_WetDryPartition ==
    Finished =>
        /\ \A k \in DOMAIN annual : C4_PartitionBlock(annual[k], YearIdx(k))
        /\ \A k \in DOMAIN seasonal : C4_PartitionBlock(seasonal[k], SeasonIdx(k))
        /\ \A k \in DOMAIN half : C4_PartitionBlock(half[k], HalfIdx(k))
        /\ \A k \in DOMAIN half_jfmamj : C4_PartitionBlock(half_jfmamj[k], HalfIdx(k))

\* a season block holding a wet day, a dry day and a missing value
C4_Witness ==
    /\ pc = "done"
    /\ \E k \in DOMAIN seasonal :
          /\ \E i \in SeasonIdx(k) : ObsWet(i)
          /\ \E i \in SeasonIdx(k) : ObsMissing(i)
          /\ \E i \in SeasonIdx(k) : ~ObsMissing(i) /\ ~ObsWet(i)
          /\ seasonal[k].Dias_chuvosos + seasonal[k].Dias_secos = 3

(***************************************************************************)
(* C5.                                                                     *)
(***************************************************************************)
AllSame(s) == \A i \in DOMAIN s, j \in DOMAIN s : s[i] = s[j]

\* C5 as stated: the emitted run lengths sum to the length of the input, no
\* two adjacent emitted runs share a state (every emitted run is a dry run,
\* so at most one can be emitted), the empty input gives no run and an
\* all-same-state input gives exactly one run covering everything.
C5_RunsCoverInput ==
    pc = "runs_done" =>
        /\ SumInts(runs_out) = Len(is_dry_bool)
        /\ Len(runs_out) <= 1
        /\ (is_dry_bool = <<>> => runs_out = <<>>)
        /\ (is_dry_bool # <<>> /\ AllSame(is_dry_bool)
               => runs_out = <<Len(is_dry_bool)>>)

\* C5 amended: the emitted runs are the maximal runs of True (dry) of the
\* input, in order: their lengths are >= 1 and sum to the number of True
\* elements, there is one per maximal run, the empty input and an all-False
\* input give no run, an all-True input gives one run covering everything.
C5_RunsCoverDryElements ==
    pc = "runs_done" =>
        /\ runs_out = MaximalRuns(is_dry_bool)
        /\ SumInts(runs_out) = CountTrue(is_dry_bool)
        /\ \A n \in DOMAIN runs_out : runs_out[n] >= 1
        /\ Len(runs_out) = Cardinality(RunStarts(is_dry_bool))
        /\ (is_dry_bool = <<>> => runs_out = <<>>)
        /\ ((\A i \in DOMAIN is_dry_bool : ~is_dry_bool[i]) => runs_out = <<>>)
        /\ (is_dry_bool # <<>> /\ (\A i \in DOMAIN is_dry_bool : is_dry_bool[i])
               => runs_out = <<Len(is_dry_bool)>>)

\* dry, wet, dry, dry: two runs, one wet element left out, the last run open
C5_Witness ==
    /\ pc = "runs_done"
    /\ is_dry_bool = <<TRUE, FALSE, TRUE, TRUE>>
    /\ runs_out = <<1, 2>>

(***************************************************************************)
(* C6.                                                                     *)
(***************************************************************************)
C6_MeanLawTable(t) ==
    LET D     == {k \in DOMAIN t : ~IsNaN(t[k].INT_mm_dia)}
        A     == DOMAIN t
        ints  == [k \in A |-> t[k].INT_mm_dia]
        dsls  == [k \in A |-> t[k].DSL_dias]
        intn  == [k \in A |-> t[k].INT_norm]
        dsln  == [k \in A |-> t[k].DSL_norm]
    IN  /\ IF D # {} /\ ~IsZero(SumF(ints, D))
           THEN FDiv(SumF(intn, D), Num(Cardinality(D))) = Num(1)
           ELSE \A k \in A : IsNaN(intn[k])
        /\ IF A # {} /\ ~IsZero(SumF(dsls, A))
           THEN FDiv(SumF(dsln, A), Num(Cardinality(A))) = Num(1)
           ELSE \A k \in A : IsNaN(dsln[k])

\* C6: in every normalized table the mean of INT_norm over the blocks with a
\* defined INT is 1 and the mean of DSL_norm over all blocks is 1, when the
\* respective mean is defined and not zero; otherwise the normalized column
\* is undefined in every block.
C6_NormalizationMeanLaw ==
    Finished =>
        /\ C6_MeanLawTable(annual)
        /\ C6_MeanLawTable(seasonal)
        /\ C6_MeanLawTable(half_jfmamj)

\* a seasonal table with two different defined INT and one undefined INT
C6_Witness ==
    /\ pc = "done"
    /\ \E k1 \in DOMAIN seasonal, k2 \in DOMAIN seasonal, k3 \in DOMAIN seasonal :
          /\ ~IsNaN(seasonal[k1].INT_norm)
          /\ ~IsNaN(seasonal[k2].INT_norm)
          /\ seasonal[k1].INT_norm # seasonal[k2].INT_norm
          /\ IsNaN(seasonal[k3].INT_mm_dia)
          /\ ~IsNaN(seasonal[k3].DSL_norm)

(***************************************************************************)
(* C7.                                                                     *)
(***************************************************************************)
C7_NoValueTable(t) ==
    LET D    == {k \in DOMAIN t : t[k].Dias_chuvosos > 0}
        ints == [k \in DOMAIN t |-> t[k].INT_mm_dia]
        mean == IF D = {} THEN NaN
                ELSE FDiv(SumF(ints, D), Num(Cardinality(D)))
    IN  \A k \in DOMAIN t :
           /\ t[k].Dias_chuvosos = 0 =>
                 /\ IsNaN(t[k].INT_mm_dia)
                 /\ IsNaN(t[k].INT_norm)
                 /\ IsNaN(t[k].HY_INT)
                 /\ t[k].DSL_dias = Num(t[k].Dias_secos)
                 /\ t[k].Dias_secos >= 1
           /\ t[k].Dias_chuvosos > 0 =>
                 /\ ~IsNaN(t[k].INT_mm_dia)
                 /\ t[k].INT_norm =
                       IF IsNaN(mean) \/ IsZero(mean) THEN NaN
                       ELSE FDiv(t[k].INT_mm_dia, mean)
           /\ IsNaN(t[k].HY_INT) <=>
                 (IsNaN(t[k].INT_norm) \/ IsNaN(t[k].DSL_norm))
           /\ ~IsNaN(t[k].DSL_dias)

\* C7: a block without wet days has INT, INT_norm and HY_INT undefined and
\* DSL defined, equal to the block length; it does not enter mean_INT, so the
\* INT_norm of the other blocks is INT over the mean of the defined INT only;
\* HY_INT is undefined exactly when INT_norm or DSL_norm is undefined.
C7_NoWetDaysIsNoValue ==
    Finished =>
        /\ C7_NoValueTable(annual)
        /\ C7_NoValueTable(seasonal)
        /\ C7_NoValueTable(half_jfmamj)
        /\ \A k \in DOMAIN seasonal :
              seasonal[k].Dias_chuvosos = 0 =>
                 seasonal[k].DSL_dias = Num(Cardinality(SeasonIdx(k)))
        /\ \A k \in DOMAIN annual :
              annual[k].Dias_chuvosos = 0 =>
                 annual[k].DSL_dias = Num(Cardinality(YearIdx(k)))
        /\ \A k \in DOMAIN half :
              half[k].Dias_chuvosos = 0 =>
                 /\ IsNaN(half[k].INT_mm_dia)
                 /\ half[k].DSL_dias = Num(Cardinality(HalfIdx(k)))

\* a seasonal table with an all-dry block of two days next to two blocks whose
\* INT_norm and HY_INT are defined
C7_Witness ==
    /\ pc = "done"
    /\ \E k1 \in DOMAIN seasonal, k2 \in DOMAIN seasonal, k3 \in DOMAIN seasonal :
          /\ seasonal[k1].Dias_chuvosos = 0
          /\ seasonal[k1].DSL_dias = Num(2)
          /\ IsNaN(seasonal[k1].HY_INT)
          /\ k2 # k3
          /\ ~IsNaN(seasonal[k2].HY_INT)
          /\ ~IsNaN(seasonal[k3].HY_INT)

(***************************************************************************)
(* C8.                                                                     *)
(***************************************************************************)
C8_Season(m) == CASE m \in {12, 1, 2} -> "DJF"
                  [] m \in {3, 4, 5} -> "MAM"
                  [] m \in {6, 7, 8} -> "JJA"
                  [] m \in {9, 10, 11} -> "SON"

\* the observations the block (season, Y) is said to hold
C8_InSeasonBlock(i, k) ==
    CASE k[2] = "DJF" -> \/ df[i].year = k[1] - 1 /\ df[i].month = 12
                         \/ df[i].year = k[1] /\ df[i].month \in {1, 2}
      [] k[2] = "MAM" -> df[i].year = k[1] /\ df[i].month \in {3, 4, 5}
      [] k[2] = "JJA" -> df[i].year = k[1] /\ df[i].month \in {6, 7, 8}
      [] k[2] = "SON" -> df[i].year = k[1] /\ df[i].month \in {9, 10, 11}

C8_InHalfBlock(i, k) ==
    CASE k[2] = "JFMAMJ" -> df[i].year = k[1] /\ df[i].month \in 1..6
      [] k[2] = "JASOND" -> df[i].year = k[1] /\ df[i].month \in 7..12

C8_BlockSize(m) == m.Dias_chuvosos + m.Dias_secos

\* C8: every observation gets the season of its month and, as season year,
\* its calendar year plus one in December and its calendar year otherwise;
\* the half-year marker carries no year shift; so the block (DJF, Y) holds
\* exactly the observations of December Y-1, January Y and February Y, and
\* every block of the seasonal and half-year tables exactly its months.
C8_SeasonAssignment ==
    MarkersDone =>
        /\ \A i \in DOMAIN df :
              /\ df[i].season = C8_Season(df[i].month)
              /\ df[i].season_year =
                    IF df[i].month = 12 THEN df[i].year + 1 ELSE df[i].year
              /\ df[i].half_label =
                    IF df[i].month \in 1..6 THEN "JFMAMJ" ELSE "JASOND"
              /\ df[i].half_year = df[i].year
              /\ (df[i].date = <<2019, 12, 15>> =>
                    df[i].season_year = 2020 /\ df[i].season = "DJF")
        /\ DOMAIN seasonal # {} =>
              /\ \A i \in DOMAIN df :
                    Cardinality({k \in DOMAIN seasonal :
                                    C8_InSeasonBlock(i, k)}) = 1
              /\ \A k \in DOMAIN seasonal :
                    /\ k[2] \in {"DJF", "MAM", "JJA", "SON"}
                    /\ C8_BlockSize(seasonal[k]) =
                          Cardinality({i \in DOMAIN df : C8_InSeasonBlock(i, k)})
                    /\ C8_BlockSize(seasonal[k]) >= 1
        /\ DOMAIN half # {} =>
              /\ \A i \in DOMAIN df :
                    Cardinality({k \in DOMAIN half : C8_InHalfBlock(i, k)}) = 1
              /\ \A k \in DOMAIN half :
                    /\ k[2] \in {"JFMAMJ", "JASOND"}
                    /\ C8_BlockSize(half[k]) =
                          Cardinality({i \in DOMAIN df : C8_InHalfBlock(i, k)})
                    /\ C8_BlockSize(half[k]) >= 1

\* 2019-12-15 and a day of January 2020 share the block (2020, DJF) and are
\* split between the half-year blocks of 2019 and 2020
C8_Witness ==
    /\ pc = "done"
    /\ Len(df) = 2
    /\ df[1].date = <<2019, 12, 15>>
    /\ df[2].date = <<2020, 1, 15>>
    /\ DOMAIN seasonal = {<<2020, "DJF">>}
    /\ C8_BlockSize(seasonal[<<2020, "DJF">>]) = 2
    /\ DOMAIN half = {<<2019, "JASOND">>, <<2020, "JFMAMJ">>}

(***************************************************************************)
(* C9.                                                                     *)
(***************************************************************************)
C9_RunsBlock(m, idx) ==
    LET L == MaximalRuns(DrySeq(idx))
    IN  /\ m.N_periodos_secos = Len(L)
        /\ m.DSL_dias = MeanInts(L)
        /\ m.CDD_dias = MaxOrZero(L)
        /\ \A n \in DOMAIN L : L[n] >= 1
        /\ SumInts(L) = m.Dias_secos
        /\ m.N_periodos_secos <= m.Dias_chuvosos + 1
        /\ (m.Dias_secos = 0 => m.DSL_dias = Num(0) /\ m.CDD_dias = 0)

\* C9: in every block of every table the dry-run count, DSL and CDD are the
\* count, mean and maximum of the lengths of the maximal runs of consecutive
\* dry days of the block's own sub-sequence in date order; the lengths are
\* >= 1 and sum to Dias_secos, there are at most Dias_chuvosos + 1 of them,
\* and DSL and CDD are 0 without a dry day; 0,5,0,0,0,2 with threshold 1
\* gives the runs 1 and 3.
C9_DryRunsPerBlock ==
    Finished =>
        /\ \A k \in DOMAIN annual : C9_RunsBlock(annual[k], YearIdx(k))
        /\ \A k \in DOMAIN seasonal : C9_RunsBlock(seasonal[k], SeasonIdx(k))
        /\ \A k \in DOMAIN half : C9_RunsBlock(half[k], HalfIdx(k))
        /\ \A k \in DOMAIN half_jfmamj : C9_RunsBlock(half_jfmamj[k], HalfIdx(k))
        /\ LET ex == compute_block_metrics(
                        [i \in 1..6 |->
                            [precip |-> Num(<<0, 5, 0, 0, 0, 2>>[i])]],
                        Num(1), NaN)
           IN  /\ ex.N_periodos_secos = 2
               /\ ex.DSL_dias = Num(2)
               /\ ex.CDD_dias = 3
               /\ ex.Dias_secos = 4

\* a dry spell of three days that continues across the new year: one run in
\* the season block, cut into a run of 1 and a run of 2 by the year blocks
C9_Witness ==
    /\ pc = "done"
    /\ Len(df) = 4
    /\ ObsWet(1) /\ ~ObsWet(2) /\ ~ObsWet(3) /\ ~ObsWet(4)
    /\ df[2].year = 2019 /\ df[3].year = 2020
    /\ annual[2019].N_periodos_secos = 1 /\ annual[2019].CDD_dias = 1
    /\ annual[2020].N_periodos_secos = 1 /\ annual[2020].CDD_dias = 2
    /\ seasonal[<<2020, "DJF">>].CDD_dias = 3

(***************************************************************************)
(* C10.                                                                    *)
(***************************************************************************)
\* the wet values of the prepared frame whose year is selected (no selection
\* selects all) and lies in the baseline range, in date order
C10_BaselineWetValues(sel) ==
    LET P  == PrepareRows(raw)
        S  == {i \in DOMAIN P :
                  /\ sel = {} \/ P[i].year \in sel
                  /\ P[i].year >= base_ini
                  /\ P[i].year <= base_fim
                  /\ FGeq(P[i].precip, limiar_umido)}
        ix == SortedIdx(S)
    IN  [n \in DOMAIN ix |-> P[ix[n]].precip]

C10_Expected(sel) ==
    LET w == C10_BaselineWetValues(sel)
    IN  IF w = <<>> THEN NaN ELSE Percentile95(w)

C10_SameThresholdBlock(m, idx) ==
    LET E == {i \in idx : FGeq(df[i].precip, r95_threshold)}
    IN  /\ m.R95pDAYS = Cardinality(E)
        /\ m.R95pTOT_mm = SumPrecip(E)

\* C10: the threshold is the 95th percentile of the wet observations whose
\* year is selected and lies in [base_ini, base_fim]; it is undefined exactly
\* when there is none; and, when defined, that one threshold gives R95pTOT
\* and R95pDAYS of every block of the annual, seasonal and half-year tables.
C10_FilterBeforeBaseline ==
    Finished =>
        /\ r95_threshold = C10_Expected(anos_sel)
        /\ IsNaN(r95_threshold) <=> (C10_BaselineWetValues(anos_sel) = <<>>)
        /\ ~IsNaN(r95_threshold) =>
              /\ \A k \in DOMAIN annual :
                    C10_SameThresholdBlock(annual[k], YearIdx(k))
              /\ \A k \in DOMAIN seasonal :
                    C10_SameThresholdBlock(seasonal[k], SeasonIdx(k))
              /\ \A k \in DOMAIN half :
                    C10_SameThresholdBlock(half[k], HalfIdx(k))
              /\ \A k \in DOMAIN half_jfmamj :
                    C10_SameThresholdBlock(half_jfmamj[k], HalfIdx(k))

\* a deselected year inside the baseline range: the threshold in use differs
\* from the one the whole baseline range would give
C10_Witness ==
    /\ pc = "done"
    /\ anos_sel # {}
    /\ \E y \in anos \ anos_sel : y >= base_ini /\ y <= base_fim
    /\ ~IsNaN(r95_threshold)
    /\ ~IsNaN(C10_Expected({}))
    /\ r95_threshold # C10_Expected({})
    /\ \E k \in DOMAIN annual : annual[k].R95pDAYS >= 1

====
